---- MODULE Spec2Model ----
(***************************************************************************)
(* A model of mistune's block-level Markdown parser                        *)
(* (src/mistune/block_parser.py).  A source buffer is a sequence of        *)
(* one-character strings; positions are 0-based as in Python, so that      *)
(* m.start(), m.end() and state.cursor keep the values the code computes.  *)
(* A handler is an operator from (match, state) to the state it leaves     *)
(* and the position it returns, 0 standing for None (the dispatch loop     *)
(* tests the result with `if end_pos:`, which treats both alike).          *)
(***************************************************************************)
EXTENDS Integers, Sequences, FiniteSets, TLC

NL == "\n"
TAB == "\t"
SP == " "
\* the backtick character (the lexer of the language does not admit it
\* inside a string literal, so it is spelled out)
BACKTICK == "BACKTICK"
DQUOTE == "\""

\* [ \t\v\f] of BLANK_LINE, [ \t] of the other patterns, and Python's \s
BlankChars == {SP, TAB, "\f"}
SpTab == {SP, TAB}
WhiteSpace == {SP, TAB, NL, "\f", "\r"}
Digits == {"0", "1", "2", "3", "4", "5", "6", "7", "8", "9"}
LowerCase == {"a", "b", "c", "d", "e", "f", "g", "h", "i", "j", "k", "l", "m",
              "n", "o", "p", "q", "r", "s", "t", "u", "v", "w", "x", "y", "z"}
UpperCase == {"A", "B", "C", "D", "E", "F", "G", "H", "I", "J", "K", "L", "M",
              "N", "O", "P", "Q", "R", "S", "T", "U", "V", "W", "X", "Y", "Z"}
Letters == LowerCase \cup UpperCase

MinOf(S) == CHOOSE x \in S : \A y \in S : x <= y
MaxOf(S) == CHOOSE x \in S : \A y \in S : x >= y

\* s[i] and s[a:b] of Python (slices clamp to the string)
Ch(s, i) == s[i + 1]
Slice(s, a, b) ==
    LET hi == IF b > Len(s) THEN Len(s) ELSE b
    IN  IF a >= hi THEN <<>> ELSE SubSeq(s, a + 1, hi)
From(s, a) == Slice(s, a, Len(s))

\* `^` under re.M: the start of the buffer or just after a newline
AtLineStart(s, p) == p = 0 \/ (p >= 1 /\ p <= Len(s) /\ s[p] = NL)

\* the position of the next newline at or after p, or the end of the buffer
Eol(s, p) == MinOf({q \in p..Len(s) : q = Len(s) \/ Ch(s, q) = NL})

\* the first position at or after p whose character is not in C
SkipSet(s, p, C) == MinOf({q \in p..Len(s) : q = Len(s) \/ Ch(s, q) \notin C})

\* whether s[a:b] has only characters of C
AllIn(s, a, b, C) == \A q \in a..(b - 1) : Ch(s, q) \in C

HasPrefix(s, p, w) ==
    /\ p + Len(w) <= Len(s)
    /\ \A i \in 1..Len(w) : s[p + i] = w[i]

\* str.find(w, p): the first position at or after p where w starts, or -1
Find(s, w, p) ==
    LET H == {q \in p..Len(s) : HasPrefix(s, q, w)}
    IN  IF H = {} THEN -1 ELSE MinOf(H)


(***************************************************************************)
(* Line-wise text conversions (re.sub with a `^`-anchored pattern under    *)
(* re.M acts on the start of every line of the text).                      *)
(***************************************************************************)
RECURSIVE SplitNL(_)
\* str.split('\n')
SplitNL(s) ==
    LET e == Eol(s, 0)
    IN  IF e = Len(s) THEN <<s>> ELSE <<Slice(s, 0, e)>> \o SplitNL(From(s, e + 1))

RECURSIVE JoinNL(_)
\* '\n'.join(lines)
JoinNL(ls) ==
    IF Len(ls) = 0 THEN <<>>
    ELSE IF Len(ls) = 1 THEN ls[1]
    ELSE ls[1] \o <<NL>> \o JoinNL(Tail(ls))

Spaces(n) == [i \in 1..n |-> SP]
LeadingSpaces(line) == SkipSet(line, 0, {SP})

\* re.sub(r'^ {lo,hi}', '', text, flags=re.M) on one line
TrimLine(line, lo, hi) ==
    LET n == LeadingSpaces(line)
    IN  IF n < lo THEN line ELSE From(line, IF n > hi THEN hi ELSE n)

\* _BLOCK_QUOTE_LEADING = r'^ *>' replaced by '' on one line
DropQuoteMarker(line) ==
    LET n == LeadingSpaces(line)
    IN  IF n < Len(line) /\ Ch(line, n) = ">" THEN From(line, n + 1) ELSE line

\* _expand_tab = r'^( {0,3})\t': the leading spaces s and the tab become
\* s + ' ' * pad
ExpandLine(line, pad(_)) ==
    LET n == LeadingSpaces(line)
    IN  IF n <= 3 /\ n < Len(line) /\ Ch(line, n) = TAB
        THEN Spaces(n) \o Spaces(pad(n)) \o From(line, n + 1)
        ELSE line

Mapped(ls, F(_)) == [i \in 1..Len(ls) |-> F(ls[i])]
MapLines(text, F(_)) == JoinNL(Mapped(SplitNL(text), F))

\* util.expand_leading_tab(text, width): pad = width - len(s)
expand_leading_tab(text, width) ==
    LET pad(n) == width - n
        F(line) == ExpandLine(line, pad)
    IN  MapLines(text, F)

\* util.expand_tab(text): the tab becomes four spaces
expand_tab(text) ==
    LET pad(n) == 4
        F(line) == ExpandLine(line, pad)
    IN  MapLines(text, F)

INDENT_CODE_TRIM(text) == LET F(line) == TrimLine(line, 1, 4) IN MapLines(text, F)
BLOCK_QUOTE_TRIM(text) == LET F(line) == TrimLine(line, 0, 1) IN MapLines(text, F)
BLOCK_QUOTE_LEADING(text) == LET F(line) == DropQuoteMarker(line) IN MapLines(text, F)
FencedTrim(text, n) == LET F(line) == TrimLine(line, 0, n) IN MapLines(text, F)

\* str.strip(chars) and its one-sided forms
LStrip(s, C) == From(s, SkipSet(s, 0, C))
RStrip(s, C) ==
    LET K == {k \in 0..Len(s) : \A q \in k..(Len(s) - 1) : Ch(s, q) \in C}
    IN  Slice(s, 0, MinOf(K))
Strip(s, C) == RStrip(LStrip(s, C), C)

\* _LINE_BLANK_END = r'\n[ \t]*\n$' searched in the text ($ without re.M:
\* the end of the text, or just before its last newline)
LINE_BLANK_END(text) ==
    \E a \in 0..(Len(text) - 1) : \E b \in (a + 1)..(Len(text) - 1) :
        /\ Ch(text, a) = NL
        /\ AllIn(text, a + 1, b, SpTab)
        /\ Ch(text, b) = NL
        /\ \/ b + 1 = Len(text)
           \/ (b + 2 = Len(text) /\ Ch(text, b + 1) = NL)

\* _BLANK_TO_LINE = r'[ \t]*\n' matched at p: the end of the match, or -1
BLANK_TO_LINE(s, p) ==
    LET q == SkipSet(s, p, SpTab)
    IN  IF q < Len(s) /\ Ch(s, q) = NL THEN q + 1 ELSE -1


(***************************************************************************)
(* The rule table (SPECIFICATION): one matcher per pattern.  A match is    *)
(* [ok, rule, start, end, g1, g2, g3]; g1..g3 are the pattern's named      *)
(* groups in order.  Every pattern is anchored with `^` under re.M and,    *)
(* but for two, starts with ` {0,3}`: its matcher takes p, the start of    *)
(* the line, and q, the position after the line's leading spaces.          *)
(***************************************************************************)
NoMatch == [ok |-> FALSE, rule |-> "", start |-> 0, end |-> 0,
            g1 |-> <<>>, g2 |-> <<>>, g3 |-> <<>>]
Matched(r, p, e, a, b, c) ==
    [ok |-> TRUE, rule |-> r, start |-> p, end |-> e, g1 |-> a, g2 |-> b, g3 |-> c]
Group0(s, m) == Slice(s, m.start, m.end)

\* ` {0,3}` followed by a character that is not a space: whether q, the
\* position after the spaces at p, is such a place
Indent03(s, p, q) == q - p <= 3 /\ q < Len(s)

RECURSIVE BlankLinesEnd(_, _)
\* (^[ \t\v\f]*\n)+ at p: the end of the run of blank lines, or -1
BlankLinesEnd(s, p) ==
    IF p < Len(s) /\ Eol(s, p) < Len(s) /\ AllIn(s, p, Eol(s, p), BlankChars)
    THEN MaxOf({Eol(s, p) + 1, BlankLinesEnd(s, Eol(s, p) + 1)})
    ELSE -1

MatchBlankLine(s, p) ==
    IF BlankLinesEnd(s, p) = -1 THEN NoMatch
    ELSE Matched("blank_line", p, BlankLinesEnd(s, p), <<>>, <<>>, <<>>)

\* ^ {0,3}(#{1,6})(?!#+)([ \t]*|[ \t]+.*?)$
MatchAxtHeading(s, p, q) ==
    LET r == SkipSet(s, q, {"#"})
    IN  IF /\ Indent03(s, p, q)
           /\ r - q \in 1..6
           /\ (r = Len(s) \/ Ch(s, r) \in SpTab \cup {NL})
        THEN Matched("axt_heading", p, Eol(s, r), Slice(s, q, r),
                     Slice(s, r, Eol(s, r)), <<>>)
        ELSE NoMatch

\* ^ {0,3}(=|-){1,}[ \t]*$ : the group keeps its last repetition
MatchSetexHeading(s, p, q) ==
    LET r == SkipSet(s, q, {"=", "-"})
    IN  IF Indent03(s, p, q) /\ r > q /\ SkipSet(s, r, SpTab) = Eol(s, r)
        THEN Matched("setex_heading", p, Eol(s, r), <<Ch(s, r - 1)>>, <<>>, <<>>)
        ELSE NoMatch

\* ^( {0,3})(`{3,}|~{3,})[ \t]*(.*?)$
MatchFencedCode(s, p, q) ==
    IF Indent03(s, p, q) /\ Ch(s, q) \in {BACKTICK, "~"}
       /\ SkipSet(s, q, {Ch(s, q)}) - q >= 3
    THEN LET r == SkipSet(s, q, {Ch(s, q)})
         IN  Matched("fenced_code", p, Eol(s, r), Slice(s, p, q), Slice(s, q, r),
                     Slice(s, SkipSet(s, r, SpTab), Eol(s, r)))
    ELSE NoMatch

\* (?: {4}| *\t) at p, n being the position after the spaces at p: the end
\* of the indentation, or -1
CodeIndentEnd(s, p, n) ==
    IF n - p >= 4 THEN p + 4
    ELSE IF n < Len(s) /\ Ch(s, n) = TAB THEN n + 1
    ELSE -1

\* [^\n]+(?:\n+|$) at a: the end of the match, or -1
CodeTextEnd(s, a) ==
    IF a = -1 \/ Eol(s, a) = a THEN -1 ELSE SkipSet(s, Eol(s, a), {NL})

\* (?: {4}| *\t)[^\n]+(?:\n+|$) at p: the end of the match, or -1
CodeLineEnd(s, p) == CodeTextEnd(s, CodeIndentEnd(s, p, SkipSet(s, p, {SP})))

RECURSIVE IndentCodeRest(_, _)
\* ((?:(?: {4}| *\t)[^\n]+(?:\n+|$))|\s)* from p
IndentCodeRest(s, p) ==
    IF p >= Len(s) THEN p
    ELSE IF CodeLineEnd(s, p) # -1 THEN IndentCodeRest(s, CodeLineEnd(s, p))
    ELSE IF Ch(s, p) \in WhiteSpace THEN IndentCodeRest(s, p + 1)
    ELSE p

\* ^(?: {4}| *\t)[^\n]+(?:\n+|$)((?:(?: {4}| *\t)[^\n]+(?:\n+|$))|\s)*
MatchIndentCode(s, p) ==
    IF CodeLineEnd(s, p) = -1 THEN NoMatch
    ELSE Matched("indent_code", p, IndentCodeRest(s, CodeLineEnd(s, p)),
                 <<>>, <<>>, <<>>)

\* ^ {0,3}((?:-[ \t]*){3,}|(?:_[ \t]*){3,}|(?:\*[ \t]*){3,})$
MatchThematicBreak(s, p, q) ==
    LET e == Eol(s, q)
    IN  IF /\ Indent03(s, p, q)
           /\ Ch(s, q) \in {"-", "_", "*"}
           /\ AllIn(s, q, e, {Ch(s, q)} \cup SpTab)
           /\ Cardinality({k \in q..(e - 1) : Ch(s, k) = Ch(s, q)}) >= 3
        THEN Matched("thematic_break", p, e, <<>>, <<>>, <<>>)
        ELSE NoMatch

\* ^ {0,3}\[(LINK_LABEL)\]: with LINK_LABEL = (?:[^\\\[\]]|\\.){0,500}
\* (a buffer of the model holds no backslash, so no escaped pair)
MatchRefLink(s, p, q) ==
    LET k == MinOf({j \in (q + 1)..Len(s) :
                      j = Len(s) \/ Ch(s, j) \in {"[", "]", "\\"}})
    IN  IF /\ Indent03(s, p, q)
           /\ Ch(s, q) = "["
           /\ k + 1 < Len(s)
           /\ Ch(s, k) = "]"
           /\ Ch(s, k + 1) = ":"
           /\ k - (q + 1) <= 500
        THEN Matched("ref_link", p, k + 2, Slice(s, q + 1, k), <<>>, <<>>)
        ELSE NoMatch

\* ^ {0,3}>(.*?)$
MatchBlockQuote(s, p, q) ==
    IF Indent03(s, p, q) /\ Ch(s, q) = ">"
    THEN Matched("block_quote", p, Eol(s, q), Slice(s, q + 1, Eol(s, q)), <<>>, <<>>)
    ELSE NoMatch

\* ([\*\+-]|\d{1,9}[.)]) at q, d being the position after the digits at q:
\* the end of the marker, or -1
ListMarkerEnd(s, q, d) ==
    IF Ch(s, q) \in {"*", "+", "-"} THEN q + 1
    ELSE IF d - q \in 1..9 /\ d < Len(s) /\ Ch(s, d) \in {".", ")"} THEN d + 1
    ELSE -1

\* ([ \t]*|[ \t].+)$ at r, the end of the marker
ListRest(rule, s, p, q, r) ==
    IF r # -1 /\ (r = Len(s) \/ Ch(s, r) \in SpTab \cup {NL})
    THEN Matched(rule, p, Eol(s, r), Slice(s, p, q), Slice(s, q, r),
                 Slice(s, r, Eol(s, r)))
    ELSE NoMatch

\* ^( {0,3})([\*\+-]|\d{1,9}[.)])([ \t]*|[ \t].+)$
MatchList(s, p, q) ==
    IF Indent03(s, p, q)
    THEN ListRest("list", s, p, q, ListMarkerEnd(s, q, SkipSet(s, q, Digits)))
    ELSE NoMatch

(***************************************************************************)
(* Raw HTML: the tag tables of helpers.py and the two HTML patterns.       *)
(***************************************************************************)
\* PRE_TAGS and BLOCK_TAGS, the lists of tag names, in their order
PRE_TAGS ==
    << <<"p", "r", "e">>, <<"s", "c", "r", "i", "p", "t">>,
       <<"s", "t", "y", "l", "e">>,
       <<"t", "e", "x", "t", "a", "r", "e", "a">> >>
BLOCK_TAGS ==
    << <<"a", "d", "d", "r", "e", "s", "s">>,
       <<"a", "r", "t", "i", "c", "l", "e">>, <<"a", "s", "i", "d", "e">>,
       <<"b", "a", "s", "e">>, <<"b", "a", "s", "e", "f", "o", "n", "t">>,
       <<"b", "l", "o", "c", "k", "q", "u", "o", "t", "e">>,
       <<"b", "o", "d", "y">>, <<"c", "a", "p", "t", "i", "o", "n">>,
       <<"c", "e", "n", "t", "e", "r">>, <<"c", "o", "l">>,
       <<"c", "o", "l", "g", "r", "o", "u", "p">>, <<"d", "d">>,
       <<"d", "e", "t", "a", "i", "l", "s">>,
       <<"d", "i", "a", "l", "o", "g">>, <<"d", "i", "r">>, <<"d", "i", "v">>,
       <<"d", "l">>, <<"d", "t">>, <<"f", "i", "e", "l", "d", "s", "e", "t">>,
       <<"f", "i", "g", "c", "a", "p", "t", "i", "o", "n">>,
       <<"f", "i", "g", "u", "r", "e">>, <<"f", "o", "o", "t", "e", "r">>,
       <<"f", "o", "r", "m">>, <<"f", "r", "a", "m", "e">>,
       <<"f", "r", "a", "m", "e", "s", "e", "t">>, <<"h", "1">>, <<"h", "2">>,
       <<"h", "3">>, <<"h", "4">>, <<"h", "5">>, <<"h", "6">>,
       <<"h", "e", "a", "d">>, <<"h", "e", "a", "d", "e", "r">>, <<"h", "r">>,
       <<"h", "t", "m", "l">>, <<"i", "f", "r", "a", "m", "e">>,
       <<"l", "e", "g", "e", "n", "d">>, <<"l", "i">>, <<"l", "i", "n", "k">>,
       <<"m", "a", "i", "n">>, <<"m", "e", "n", "u">>,
       <<"m", "e", "n", "u", "i", "t", "e", "m">>, <<"m", "e", "t", "a">>,
       <<"n", "a", "v">>, <<"n", "o", "f", "r", "a", "m", "e", "s">>,
       <<"o", "l">>, <<"o", "p", "t", "g", "r", "o", "u", "p">>,
       <<"o", "p", "t", "i", "o", "n">>, <<"p">>, <<"p", "a", "r", "a", "m">>,
       <<"s", "e", "c", "t", "i", "o", "n">>,
       <<"s", "o", "u", "r", "c", "e">>,
       <<"s", "u", "m", "m", "a", "r", "y">>, <<"t", "a", "b", "l", "e">>,
       <<"t", "b", "o", "d", "y">>, <<"t", "d">>, <<"t", "f", "o", "o", "t">>,
       <<"t", "h">>, <<"t", "h", "e", "a", "d">>, <<"t", "i", "t", "l", "e">>,
       <<"t", "r">>, <<"t", "r", "a", "c", "k">>, <<"u", "l">> >>
\* `tag in tags`
InTags(tag, tags) == \E k \in 1..Len(tags) : tags[k] = tag
\* _BLOCK_TAGS_PATTERN: the names of both lists, joined by `|`
BLOCK_TAGS_PATTERN == BLOCK_TAGS \o PRE_TAGS

LowerSeq == <<"a", "b", "c", "d", "e", "f", "g", "h", "i", "j", "k", "l", "m",
              "n", "o", "p", "q", "r", "s", "t", "u", "v", "w", "x", "y", "z">>
UpperSeq == <<"A", "B", "C", "D", "E", "F", "G", "H", "I", "J", "K", "L", "M",
              "N", "O", "P", "Q", "R", "S", "T", "U", "V", "W", "X", "Y", "Z">>
\* str.lower() and str.upper()
ToLower(s) ==
    [i \in 1..Len(s) |->
        IF s[i] \in UpperCase
        THEN LowerSeq[CHOOSE k \in 1..26 : UpperSeq[k] = s[i]] ELSE s[i]]
ToUpper(s) ==
    [i \in 1..Len(s) |->
        IF s[i] \in LowerCase
        THEN UpperSeq[CHOOSE k \in 1..26 : LowerSeq[k] = s[i]] ELSE s[i]]

\* <!-- | <\? | <![A-Z] | <!\[CDATA\[ at q: the end of the opener, or -1
HtmlOpenerEnd(s, q) ==
    IF HasPrefix(s, q, <<"<", "!", "-", "-">>) THEN q + 4
    ELSE IF HasPrefix(s, q, <<"<", "?">>) THEN q + 2
    ELSE IF HasPrefix(s, q, <<"<", "!">>) /\ q + 2 < Len(s) /\ Ch(s, q + 2) \in UpperCase
         THEN q + 3
    ELSE IF HasPrefix(s, q, <<"<", "!", "[", "C", "D", "A", "T", "A", "[">>) THEN q + 9
    ELSE -1

\* the position after `<` or `</` at q, or -1
TagNameStart(s, q) ==
    IF q >= Len(s) \/ Ch(s, q) # "<" THEN -1
    ELSE IF q + 1 < Len(s) /\ Ch(s, q + 1) = "/" THEN q + 2
    ELSE q + 1

\* HTML_TAGNAME = [A-Za-z][A-Za-z0-9-]* at t: its end, or -1
HtmlTagNameEnd(s, t) ==
    IF t >= 0 /\ t < Len(s) /\ Ch(s, t) \in Letters
    THEN SkipSet(s, t + 1, Letters \cup Digits \cup {"-"})
    ELSE -1

\* the end a if the first alternative matched, else the end b
FirstEnd(a, b) == IF a # -1 THEN a ELSE b

\* ^ {0,3} and then the alternatives ending at e
HtmlMatch(rule, s, p, q, e) ==
    IF Indent03(s, p, q) /\ e # -1
    THEN Matched(rule, p, e, <<>>, <<>>, <<>>)
    ELSE NoMatch

\* RAW_HTML (`</?` backtracks: a `/` that no tag name follows is not taken)
MatchRawHtml(s, p, q) ==
    HtmlMatch("raw_html", s, p, q,
              FirstEnd(HtmlTagNameEnd(s, TagNameStart(s, q)), HtmlOpenerEnd(s, q)))

\* (?:[ \t]+|\n|$) at a: the end of the match, or -1
TagDelimEnd(s, a) ==
    IF a = Len(s) THEN a
    ELSE IF Ch(s, a) \in SpTab THEN SkipSet(s, a, SpTab)
    ELSE IF Ch(s, a) = NL THEN a + 1
    ELSE -1

\* where the name of the alternative k starts for a match at q, or -1: the
\* names are joined into the pattern ungrouped, so that `</?` stands before
\* the first name only
TagStart(s, q, k) == IF k = 1 THEN TagNameStart(s, q) ELSE q

\* the alternatives of `</?` + _BLOCK_TAGS_PATTERN + `(?:[ \t]+|\n|$)` that
\* match at q: the delimiter stands after the last name only
TagsAt(s, q) ==
    {k \in 1..Len(BLOCK_TAGS_PATTERN) :
        /\ TagStart(s, q, k) >= 0
        /\ HasPrefix(s, TagStart(s, q, k), BLOCK_TAGS_PATTERN[k])
        /\ k = Len(BLOCK_TAGS_PATTERN) =>
               TagDelimEnd(s, TagStart(s, q, k) + Len(BLOCK_TAGS_PATTERN[k])) # -1}

\* the end of the alternative k matched at q
TagEnd(s, q, k) ==
    IF k = Len(BLOCK_TAGS_PATTERN)
    THEN TagDelimEnd(s, TagStart(s, q, k) + Len(BLOCK_TAGS_PATTERN[k]))
    ELSE TagStart(s, q, k) + Len(BLOCK_TAGS_PATTERN[k])

\* the end of the first of the alternatives K that match at q, or -1
BlockTagAt(s, q, K) == IF K = {} THEN -1 ELSE TagEnd(s, q, MinOf(K))

\* (?:</?TAGS(?:[ \t]+|\n|$)) at q, the names of TAGS being alternatives of
\* the group itself: the end of the match, or -1
BlockTagEnd(s, q) == BlockTagAt(s, q, TagsAt(s, q))

\* BLOCK_HTML
MatchBlockHtml(s, p, q) ==
    HtmlMatch("block_html", s, p, q,
              FirstEnd(BlockTagEnd(s, q), HtmlOpenerEnd(s, q)))

AttrNameStart == Letters \cup {"_", ":"}
AttrNameChars == Letters \cup Digits \cup {"_", ".", ":", "-"}
RECURSIVE HtmlAttributesEnd(_, _, _)
\* HTML_ATTRIBUTES at p within s[:lim], for attributes without a value:
\* (?:\s+[A-Za-z_:][A-Za-z0-9_.:-]*)*
HtmlAttributesEnd(s, p, lim) ==
    LET w == MinOf({q \in p..lim : q = lim \/ Ch(s, q) \notin WhiteSpace})
        n == MinOf({q \in w..lim : q = lim \/ Ch(s, q) \notin AttrNameChars})
    IN  IF w > p /\ w < lim /\ Ch(s, w) \in AttrNameStart
        THEN HtmlAttributesEnd(s, n, lim)
        ELSE p

\* [ \t]*>[ \t]*(?:\n|$) matched at p within s[:lim]
TagCloses(s, p, lim) ==
    LET a == MinOf({q \in p..lim : q = lim \/ Ch(s, q) \notin SpTab})
        b == MinOf({q \in (a + 1)..lim : q = lim \/ Ch(s, q) \notin SpTab})
    IN  /\ a < lim
        /\ Ch(s, a) = ">"
        /\ (b = lim \/ Ch(s, b) = NL)

\* _OPEN_TAG_END.match(src, pos, endpos) and _CLOSE_TAG_END.match(src, pos, endpos)
OPEN_TAG_END(s, p, lim) == TagCloses(s, HtmlAttributesEnd(s, p, lim), lim)
CLOSE_TAG_END(s, p, lim) == TagCloses(s, p, lim)


(***************************************************************************)
(* Link destinations, titles and labels (helpers.py, util.py).             *)
(***************************************************************************)
\* [ \t]*\n?[ \t]* at p: the position it reaches
SkipToDestination(s, p) ==
    LET a == SkipSet(s, p, SpTab)
        b == IF a < Len(s) /\ Ch(s, a) = NL THEN a + 1 ELSE a
    IN  SkipSet(s, b, SpTab)

\* the destination at a: <destination> (no `<`, `>`, newline or backslash
\* inside), or ([^\s]+)(?:\s|$)
LinkHrefAt(s, a) ==
    LET c == MinOf({q \in (a + 1)..Len(s) :
                      q = Len(s) \/ Ch(s, q) \in {"<", ">", NL, "\\"}})
        e == MinOf({q \in a..Len(s) : q = Len(s) \/ Ch(s, q) \in WhiteSpace})
    IN  IF a < Len(s) /\ Ch(s, a) = "<"
        THEN IF c < Len(s) /\ Ch(s, c) = ">"
             THEN [href |-> Slice(s, a + 1, c), pos |-> c + 1]
             ELSE [href |-> <<>>, pos |-> -1]
        ELSE IF e > a
             THEN [href |-> Slice(s, a, e), pos |-> e]
             ELSE [href |-> <<>>, pos |-> -1]

\* parse_link_href(src, start_pos, block=True): [href, pos], pos = -1 for
\* (None, None)
parse_link_href(s, p) == LinkHrefAt(s, SkipToDestination(s, p))

\* parse_link_title(src, start_pos, max_pos): [title, pos], pos = 0 for
\* (None, None); the title is quoted with " or '
parse_link_title(s, p, max_pos) ==
    LET lim == IF max_pos > Len(s) THEN Len(s) ELSE max_pos
        a == MinOf({q \in p..lim : q = lim \/ Ch(s, q) \notin (SpTab \cup {NL})})
        qc == Ch(s, a)
        c == MinOf({q \in (a + 1)..lim : q = lim \/ Ch(s, q) = qc})
    IN  IF p <= lim /\ a > p /\ a < lim /\ qc \in {DQUOTE, "'"} /\ c < lim
        THEN [title |-> Slice(s, a + 1, c), pos |-> c + 1]
        ELSE [title |-> <<>>, pos |-> 0]

RECURSIVE CollapseSpace(_)
\* ' '.join(s.split()) on a text without leading white space
CollapseSpace(s) ==
    IF s = <<>> THEN <<>>
    ELSE IF s[1] \in WhiteSpace
         THEN LET r == LStrip(s, WhiteSpace)
              IN  IF r = <<>> THEN <<>> ELSE <<SP>> \o CollapseSpace(r)
    ELSE <<s[1]>> \o CollapseSpace(Tail(s))

\* util.unikey: white space folded, then case folded
unikey(s) == ToUpper(ToLower(CollapseSpace(LStrip(s, WhiteSpace))))

RECURSIVE FlatMap(_, _)
FlatMap(s, f) == IF s = <<>> THEN <<>> ELSE f[s[1]] \o FlatMap(Tail(s), f)

\* util.escape_url: percent-encoding of the characters outside the safe set
PercentCode ==
    [c \in {"<", ">", "[", "]", DQUOTE, BACKTICK, SP} |->
        <<"%">> \o (CASE c = "<" -> <<"3", "C">>
                      [] c = ">" -> <<"3", "E">>
                      [] c = "[" -> <<"5", "B">>
                      [] c = "]" -> <<"5", "D">>
                      [] c = DQUOTE -> <<"2", "2">>
                      [] c = BACKTICK -> <<"6", "0">>
                      [] c = SP -> <<"2", "0">>)]
escape_url(s) ==
    FlatMap(s, [c \in {s[i] : i \in 1..Len(s)} |->
                  IF c \in DOMAIN PercentCode THEN PercentCode[c] ELSE <<c>>])

\* util.safe_entity: the HTML-special characters become entities
EntityCode ==
    [c \in {"<", ">", "&", DQUOTE} |->
        CASE c = "<" -> <<"&", "l", "t", ";">>
          [] c = ">" -> <<"&", "g", "t", ";">>
          [] c = "&" -> <<"&", "a", "m", "p", ";">>
          [] c = DQUOTE -> <<"&", "q", "u", "o", "t", ";">>]
safe_entity(s) ==
    FlatMap(s, [c \in {s[i] : i \in 1..Len(s)} |->
                  IF c \in DOMAIN EntityCode THEN EntityCode[c] ELSE <<c>>])

Punctuation == {"!", DQUOTE, "#", "$", "%", "&", "'", "(", ")", "*", "+", ",",
                "-", ".", "/", ":", ";", "<", "=", ">", "?", "@", "[", "\\",
                "]", "^", "_", BACKTICK, "{", "|", "}", "~"}
RECURSIVE unescape_char(_)
\* helpers.unescape_char: a backslash before a punctuation character is dropped
unescape_char(s) ==
    IF s = <<>> THEN <<>>
    ELSE IF s[1] = "\\" /\ Len(s) >= 2 /\ s[2] \in Punctuation
         THEN <<s[2]>> \o unescape_char(Tail(Tail(s)))
    ELSE <<s[1]>> \o unescape_char(Tail(s))


(***************************************************************************)
(* Parser state (core.BlockState).  A state is the record                  *)
(*   [src, cursor, tokens, env, depth, err, stalled, qmax, note]           *)
(* cursor_max is Len(src); env is the Environment's ref_links mapping,     *)
(* shared by a state and its children; depth is the number of parents.     *)
(* err is the exception being raised ("" for none).  The last three are    *)
(* observations of the run, not fields of the program: stalled records a   *)
(* loop pass that did not advance the cursor, qmax the greatest depth at   *)
(* which the block-quote handler ran, note what the last block-quote call  *)
(* took in.  A token also carries lo and hi, the span of its state's       *)
(* buffer it was made from.                                                *)
(***************************************************************************)
NoNote == [strict |-> FALSE, lazy |-> <<>>, stop |-> 0, end_pos |-> 0, text |-> <<>>]

NewState(text, env, depth) ==
    [src |-> text, cursor |-> 0, tokens |-> <<>>, env |-> env, depth |-> depth,
     err |-> "", stalled |-> FALSE, qmax |-> -1, note |-> NoNote]

cursor_max(st) == Len(st.src)

\* _LINE_END = r'\n|$' searched from p: the end of the match
LineEnd(s, p) == MinOf({Eol(s, p) + 1, Len(s)})

\* find_line_end(): a search from beyond the end of the buffer finds its end
find_line_end(st) == LineEnd(st.src, MinOf({st.cursor, Len(st.src)}))

get_text(st, end_pos) == Slice(st.src, st.cursor, end_pos)

HasLast(st) == Len(st.tokens) > 0
last_token(st) == st.tokens[Len(st.tokens)]
LastIsParagraph(st) == HasLast(st) /\ last_token(st).type = "paragraph"

append_token(st, token) == [st EXCEPT !.tokens = Append(@, token)]

\* tokens.insert(len(tokens) - 1, token): before the last token
prepend_token(st, token) ==
    [st EXCEPT !.tokens =
        IF Len(@) = 0 THEN <<token>>
        ELSE SubSeq(@, 1, Len(@) - 1) \o <<token>> \o <<@[Len(@)]>>]

\* the last token, a paragraph, with text added from the span [lo, hi)
Merged(st, text, lo, hi) ==
    [st EXCEPT !.tokens[Len(st.tokens)] =
        [@ EXCEPT !.text = @ \o text,
                  !.lo = IF lo < @ THEN lo ELSE @,
                  !.hi = IF hi > @ THEN hi ELSE @]]

add_paragraph(st, text, lo, hi) ==
    IF LastIsParagraph(st) THEN Merged(st, text, lo, hi)
    ELSE append_token(st, [type |-> "paragraph", text |-> text, lo |-> lo, hi |-> hi])

\* what a handler leaves: the state and the position returned, 0 for None
Ret(st, end_pos) == [st |-> st, end |-> end_pos]

\* the line from the cursor to pos added to the last token
MergeLine(st, pos) == Ret(Merged(st, get_text(st, pos), st.cursor, pos), pos)

\* append_paragraph(): the end position, or 0 for None
append_paragraph(st) ==
    IF LastIsParagraph(st) THEN MergeLine(st, find_line_end(st)) ELSE Ret(st, 0)

\* `end_pos = ...; if end_pos: return end_pos` and then the rest of a handler
OrElse(r, rest) == IF r.end # 0 THEN r ELSE rest

\* child_state(src): a state of its own over src, the environment shared
child_state(st, text) ==
    [NewState(text, st.env, st.depth + 1) EXCEPT
        !.stalled = st.stalled, !.qmax = st.qmax, !.note = st.note]

\* what a parent sees of a child once the child is parsed
AfterChild(st, child) ==
    [st EXCEPT !.env = child.env, !.err = child.err, !.stalled = child.stalled,
               !.qmax = child.qmax, !.note = child.note]

Raise(st, e) == [st EXCEPT !.err = e]

\* a loop pass that ends at `new` having started at `old`
Advanced(old, new) ==
    IF new.err # "" \/ new.cursor > old.cursor THEN new
    ELSE [new EXCEPT !.stalled = TRUE]
Halted(st) == st.err # "" \/ st.stalled

(***************************************************************************)
(* Handlers without recursion.                                             *)
(***************************************************************************)
parse_blank_line(m, st) ==
    Ret(append_token(st, [type |-> "blank_line", lo |-> m.start, hi |-> m.end]), m.end)

parse_thematic_break(m, st) ==
    Ret(append_token(st, [type |-> "thematic_break", lo |-> m.start, hi |-> m.end + 1]),
        m.end + 1)

\* lines 125-131 without the paragraph check of lines 121-123
parse_indent_code_always(m, st) ==
    Ret(append_token(st,
            [type |-> "block_code",
             raw |-> Strip(INDENT_CODE_TRIM(
                               expand_leading_tab(Group0(st.src, m), 4)), {NL}),
             lo |-> m.start, hi |-> m.end]),
        m.end)

\* lines 120-131
parse_indent_code(m, st) ==
    OrElse(append_paragraph(st),
           Ret(append_token(st,
                   [type |-> "block_code",
                    raw |-> Strip(INDENT_CODE_TRIM(
                                      expand_leading_tab(Group0(st.src, m), 4)), {NL}),
                    lo |-> m.start, hi |-> m.end]),
               m.end))

\* ^ {0,3}c{n,}[ \t]*(?:\n|$) at q, i being the position after the spaces at q
FenceCloses(s, q, i, c, n) ==
    /\ i - q <= 3
    /\ SkipSet(s, i, {c}) - i >= n
    /\ SkipSet(s, SkipSet(s, i, {c}), SpTab) = Eol(s, i)

\* the closing fences at or after p (the pattern searched under re.M)
Fences(s, p, c, n) ==
    {q \in p..(Len(s) - 1) :
        AtLineStart(s, q) /\ FenceCloses(s, q, SkipSet(s, q, {SP}), c, n)}

\* the fenced block whose first line is m, closed by the first of the fences
\* Q, or by the end of the buffer
FencedCodeTo(m, st, Q) ==
    LET cursor_start == m.end + 1
        start == MinOf(Q)
        code == IF Q # {} THEN Slice(st.src, cursor_start, start)
                ELSE From(st.src, cursor_start)
        end_pos == IF Q # {} THEN LineEnd(st.src, start) ELSE cursor_max(st)
        token == [type |-> "block_code",
                  raw |-> IF m.g1 # <<>> /\ code # <<>>
                          THEN FencedTrim(code, Len(m.g1)) ELSE code,
                  fenced |-> TRUE, lo |-> m.start, hi |-> end_pos]
    IN  Ret(append_token(st,
                IF m.g3 # <<>>
                THEN token @@ [attrs |-> [info |-> safe_entity(
                         Strip(unescape_char(m.g3), WhiteSpace))]]
                ELSE token),
            end_pos)

parse_fenced_code(m, st) ==
    LET marker == m.g2
        info == m.g3
        c == marker[1]
    IN  IF info # <<>> /\ c = BACKTICK /\ Find(info, <<c>>, 0) # -1
        THEN Ret(st, 0)
        ELSE FencedCodeTo(m, st, Fences(st.src, m.end + 1, c, Len(marker)))

\* _AXT_HEADING_TRIM = r'(\s+|^)#+\s*$' replaced by '' in a stripped text
AXT_HEADING_TRIM(text) ==
    LET h == MinOf({k \in 0..Len(text) : AllIn(text, k, Len(text), {"#"})})
    IN  IF h = Len(text) THEN text
        ELSE IF h = 0 THEN <<>>
        ELSE IF Ch(text, h - 1) \in WhiteSpace THEN RStrip(Slice(text, 0, h), WhiteSpace)
        ELSE text

\* `if text: text = _AXT_HEADING_TRIM.sub('', text)`
HeadingText(text) == IF text # <<>> THEN AXT_HEADING_TRIM(text) ELSE text

parse_axt_heading(m, st) ==
    Ret(append_token(st, [type |-> "heading",
                          text |-> HeadingText(Strip(m.g2, WhiteSpace)),
                          attrs |-> [level |-> Len(m.g1)],
                          lo |-> m.start, hi |-> m.end + 1]), m.end + 1)

\* BLANK_LINE.search(src, p): the start of the first run of blank lines at or
\* after p, or the end of the buffer when there is none
BlankLineSearch(s, p) ==
    MinOf({q \in p..Len(s) :
             q = Len(s) \/ (AtLineStart(s, q) /\ BlankLinesEnd(s, q) # -1)})

\* `m = _BLANK_TO_LINE.match(src, pos)`: m.end(), or 0 (None) without a match
ToLineEnd(s, pos) == MaxOf({BLANK_TO_LINE(s, pos), 0})

\* lines 234-238 ahead of the test of lines 230-232: the definition is kept
\* before the end of its line is looked for
RefLinkDefineFirst(st, key, h, title, end_pos) ==
    LET url == [url |-> escape_url(unescape_char(h.href))]
    IN  IF key \in DOMAIN st.env THEN Ret(st, end_pos)
        ELSE Ret([st EXCEPT !.env = @ @@ (key :>
                     IF title # <<>> THEN url @@ [title |-> safe_entity(title)]
                     ELSE url)],
                 end_pos)

\* the end of parse_ref_link: the definition is kept unless the key is known
RefLinkDefine(st, key, h, title, end_pos) ==
    LET url == [url |-> escape_url(unescape_char(h.href))]
    IN  IF end_pos = 0 THEN Ret(st, 0)
        ELSE IF key \in DOMAIN st.env THEN Ret(st, end_pos)
        ELSE Ret([st EXCEPT !.env = @ @@ (key :>
                     IF title # <<>> THEN url @@ [title |-> safe_entity(title)]
                     ELSE url)],
                 end_pos)

\* parse_ref_link once the title t and title_pos are settled (0 for None)
RefLinkTitled(st, key, h, t, title_pos) ==
    IF title_pos # 0
    THEN RefLinkDefine(st, key, h, t.title, title_pos)
    ELSE RefLinkDefine(st, key, h, <<>>, ToLineEnd(st.src, h.pos))

\* parse_ref_link from the destination h on
RefLinkHref(st, key, h, t) ==
    RefLinkTitled(st, key, h, t,
                  IF t.pos # 0 THEN ToLineEnd(st.src, t.pos) ELSE 0)

\* parse_ref_link after the paragraph check
RefLinkKeyed(st, key, h) ==
    IF key = <<>> \/ h.pos = -1 THEN Ret(st, 0)
    ELSE RefLinkHref(st, key, h,
             parse_link_title(st.src, h.pos, BlankLineSearch(st.src, h.pos)))

parse_ref_link(m, st) ==
    OrElse(append_paragraph(st),
           RefLinkKeyed(st, unikey(m.g1), parse_link_href(st.src, m.end)))

\* the block from the cursor to the end of the line that holds the marker
HtmlToMarker(st, marker_pos) ==
    LET end_pos == LineEnd(st.src, marker_pos)
    IN  IF marker_pos = -1
        THEN Ret(append_token(st, [type |-> "block_html", raw |-> From(st.src, st.cursor),
                                   lo |-> st.cursor, hi |-> cursor_max(st)]),
                 cursor_max(st))
        ELSE Ret(append_token([st EXCEPT !.cursor = marker_pos],
                              [type |-> "block_html",
                               raw |-> get_text(st, marker_pos)
                                       \o Slice(st.src, marker_pos, end_pos),
                               lo |-> st.cursor, hi |-> end_pos]), end_pos)

\* _parse_html_to_end(state, end_marker, start_pos)
parse_html_to_end(st, end_marker, start_pos) ==
    HtmlToMarker(st, Find(st.src, end_marker, start_pos))

\* the block from the cursor to end_pos
HtmlTo(st, end_pos) ==
    Ret(append_token(st, [type |-> "block_html", raw |-> get_text(st, end_pos),
                          lo |-> st.cursor, hi |-> end_pos]), end_pos)

\* _parse_html_to_newline(state, BLANK_LINE)
parse_html_to_newline(st) == HtmlTo(st, BlankLineSearch(st.src, st.cursor))

\* rules 2, 3, 5, 4 and 1 of parse_raw_html: the marker that ends the block,
\* <<>> when the block is not of these kinds
EndMarker(marker, open_tag) ==
    IF marker = <<"<", "!", "-", "-">> THEN <<"-", "-", ">">>
    ELSE IF marker = <<"<", "?">> THEN <<"?", ">">>
    ELSE IF marker = <<"<", "!", "[", "C", "D", "A", "T", "A", "[">>
    THEN <<"]", "]", ">">>
    ELSE IF HasPrefix(marker, 0, <<"<", "!">>) THEN <<">">>
    ELSE IF InTags(open_tag, PRE_TAGS) THEN <<"<", "/">> \o open_tag \o <<">">>
    ELSE <<>>

\* rule 7: the tag closes on its line
Rule7(st, start_pos, end_pos, open_tag, close_tag) ==
    \/ (open_tag # <<>> /\ OPEN_TAG_END(st.src, start_pos, end_pos))
    \/ (close_tag # <<>> /\ CLOSE_TAG_END(st.src, start_pos, end_pos))

\* parse_raw_html for the stripped marker; a tag is <<>> where the code has None
RawHtmlTagged(m, st, end_marker, open_tag, close_tag) ==
    IF end_marker # <<>> THEN parse_html_to_end(st, end_marker, m.end)
    ELSE IF InTags(open_tag, BLOCK_TAGS) \/ InTags(close_tag, BLOCK_TAGS)
    THEN parse_html_to_newline(st)
    ELSE OrElse(append_paragraph(st),
                IF Rule7(st, m.end, find_line_end(st), open_tag, close_tag)
                THEN parse_html_to_newline(st)
                ELSE Ret(st, 0))

RawHtmlMarked(m, st, marker, tag) ==
    IF HasPrefix(marker, 0, <<"<", "/">>)
    THEN RawHtmlTagged(m, st, EndMarker(marker, <<>>), <<>>, tag)
    ELSE RawHtmlTagged(m, st, EndMarker(marker, tag), tag, <<>>)

\* marker[2:].lower() of `</name`, marker[1:].lower() of `<name`
TagOf(marker) ==
    ToLower(From(marker, IF HasPrefix(marker, 0, <<"<", "/">>) THEN 2 ELSE 1))

parse_raw_html(m, st) ==
    RawHtmlMarked(m, st, Strip(Group0(st.src, m), WhiteSpace),
                  TagOf(Strip(Group0(st.src, m), WhiteSpace)))

parse_block_html(m, st) == parse_raw_html(m, st)


(***************************************************************************)
(* The scanner (core.Parser.compile_sc): the rules' patterns joined as     *)
(* alternatives in the order of the rule list.                             *)
(***************************************************************************)
\* the pattern of `rule` at p, q being the position after the spaces at p
MatchRuleAt(rule, s, p, q) ==
    CASE rule = "blank_line" -> MatchBlankLine(s, p)
      [] rule = "axt_heading" -> MatchAxtHeading(s, p, q)
      [] rule = "setex_heading" -> MatchSetexHeading(s, p, q)
      [] rule = "fenced_code" -> MatchFencedCode(s, p, q)
      [] rule = "indent_code" -> MatchIndentCode(s, p)
      [] rule = "thematic_break" -> MatchThematicBreak(s, p, q)
      [] rule = "ref_link" -> MatchRefLink(s, p, q)
      [] rule = "block_quote" -> MatchBlockQuote(s, p, q)
      [] rule = "list" -> MatchList(s, p, q)
      [] rule = "block_html" -> MatchBlockHtml(s, p, q)
      [] rule = "raw_html" -> MatchRawHtml(s, p, q)
      [] OTHER -> NoMatch

MatchRule(rule, s, p) ==
    IF p < Len(s) /\ AtLineStart(s, p)
    THEN MatchRuleAt(rule, s, p, SkipSet(s, p, {SP}))
    ELSE NoMatch

\* the first of the matches ms that is one
FirstOk(ms) ==
    IF \E i \in 1..Len(ms) : ms[i].ok
    THEN ms[MinOf({i \in 1..Len(ms) : ms[i].ok})]
    ELSE NoMatch

\* sc.match(src, p): the first rule of the list that matches at p
ScMatch(rules, s, p) ==
    FirstOk([i \in 1..Len(rules) |-> MatchRule(rules[i], s, p)])

\* sc.search(src, p): the match at the first position where a rule matches
ScSearch(rules, s, p) ==
    FirstOk([k \in 1..(Len(s) - p) |-> ScMatch(rules, s, p + k - 1)])

DEFAULT_RULES == <<"fenced_code", "indent_code", "axt_heading", "setex_heading",
                   "thematic_break", "block_quote", "list", "ref_link",
                   "raw_html", "blank_line">>

\* list.remove(x): the list without the first x
Remove(l, x) ==
    LET i == MinOf({k \in 1..Len(l) : l[k] = x})
    IN  SubSeq(l, 1, i - 1) \o SubSeq(l, i + 1, Len(l))
Contains(l, x) == \E k \in 1..Len(l) : l[k] = x

\* ( {0,3}>[^\n]*(?:\n|$)) at p, q being the position after the spaces at p
QuoteLineAt(s, p, q) == p < Len(s) /\ q - p <= 3 /\ q < Len(s) /\ Ch(s, q) = ">"

RECURSIVE StrictQuoteEnd(_, _)
\* STRICT_BLOCK_QUOTE = ( {0,3}>[^\n]*(?:\n|$))+ matched at p (no re.M, no ^):
\* the end of the match, or -1
StrictQuoteEnd(s, p) ==
    IF QuoteLineAt(s, p, SkipSet(s, p, {SP}))
    THEN MaxOf({LineEnd(s, p), StrictQuoteEnd(s, LineEnd(s, p))})
    ELSE -1

\* the quoted lines of a STRICT_BLOCK_QUOTE match with their markers removed
Unquote(quote) ==
    BLOCK_QUOTE_TRIM(expand_leading_tab(BLOCK_QUOTE_LEADING(quote), 3))


(***************************************************************************)
(* The list assembler's text helpers (list_parser.py).                     *)
(***************************************************************************)
DigitSeq == <<"0", "1", "2", "3", "4", "5", "6", "7", "8", "9">>
RECURSIVE ToInt(_)
\* int(digits)
ToInt(d) ==
    IF d = <<>> THEN 0
    ELSE 10 * ToInt(SubSeq(d, 1, Len(d) - 1))
         + ((CHOOSE k \in 1..10 : DigitSeq[k] = d[Len(d)]) - 1)

\* the text after the marker, tabs expanded, and the width of the marker
\* with the spaces after it
ContinueWidth(text, leading_width) ==
    LET n == LeadingSpaces(text)
        has_text == n < Len(text) /\ Ch(text, n) \notin WhiteSpace
        space_width == IF has_text /\ n < 5 THEN n ELSE 1
    IN  [text |-> IF has_text THEN From(text, space_width) \o <<NL>> ELSE <<>>,
         width |-> leading_width + space_width]

\* _compile_continue_width(text, leading_width): [text, width]
compile_continue_width(text, leading_width) ==
    ContinueWidth(expand_tab(expand_leading_tab(text, 3)), leading_width)

\* _clean_list_item_text(src, continue_width)
clean_list_item_text(src, continue_width) ==
    LET F(line) == IF HasPrefix(line, 0, Spaces(continue_width))
                   THEN expand_tab(From(line, continue_width))
                   ELSE line
    IN  MapLines(src, F)

\* strip_end: r'\n\s+$' replaced by '\n'
strip_end(text) ==
    LET J == {j \in Len(RStrip(text, WhiteSpace))..(Len(text) - 2) : Ch(text, j) = NL}
    IN  IF J = {} THEN text ELSE Slice(text, 0, MinOf(J)) \o <<NL>>

\* _is_loose(tokens)
is_loose(tokens) ==
    \/ \E i \in 1..Len(tokens) : tokens[i].type = "blank_line"
    \/ Cardinality({i \in 1..Len(tokens) : tokens[i].type = "paragraph"}) > 1

\* the marker of an item of the list of `bullet` at q, d being the position
\* after the digits at q: the end of the marker, or -1
ItemMarkerEnd(bullet, s, q, d) ==
    IF bullet \in {".", ")"}
    THEN (IF d - q \in 1..9 /\ d < Len(s) /\ Ch(s, d) = bullet THEN d + 1 ELSE -1)
    ELSE (IF Ch(s, q) = bullet THEN q + 1 ELSE -1)

\* the list-item pattern of a bullet: ^( {0,w})(bullet)([ \t]*|[ \t][^\n]+)$
MatchListItem(bullet, s, p, q) ==
    IF q < Len(s)
    THEN ListRest("list_item", s, p, q,
                  ItemMarkerEnd(bullet, s, q, SkipSet(s, q, Digits)))
    ELSE NoMatch

\* the rules that end a list item, list_item second
ItemBreakRules == <<"thematic_break", "list_item", "fenced_code", "axt_heading",
                    "block_quote", "block_html", "list">>

ItemRuleAt(rule, bullet, s, p, q) ==
    IF rule = "list_item" THEN MatchListItem(bullet, s, p, q)
    ELSE MatchRuleAt(rule, s, p, q)

\* the item scanner matched at p: each pattern after (?<=\n), its indentation
\* {0,3} narrowed to {0,w} when w < 3
ItemScMatch(bullet, w, s, p) ==
    IF p >= 1 /\ p < Len(s) /\ Ch(s, p - 1) = NL /\ SkipSet(s, p, {SP}) - p <= w
    THEN FirstOk([i \in 1..Len(ItemBreakRules) |->
                     ItemRuleAt(ItemBreakRules[i], bullet, s, p, SkipSet(s, p, {SP}))])
    ELSE NoMatch


(***************************************************************************)
(* The recursive handlers and the dispatch loop.  self is the parser's     *)
(* configuration [block_quote_rules, list_rules, max_nested_level].        *)
(***************************************************************************)
RECURSIVE parse_method(_, _, _)
RECURSIVE Parse(_, _, _)
RECURSIVE QuoteLoop(_, _, _, _, _)
RECURSIVE ItemLoop(_, _, _, _, _, _)
RECURSIVE ListItems(_, _, _, _, _, _)

\* `m = sc.match(...); if m: end_pos = self.parse_method(m, state)`
TryMethod(self, m, st) == IF m.ok THEN parse_method(self, m, st) ELSE Ret(st, 0)

BreakRules == <<"blank_line", "thematic_break", "fenced_code", "list", "block_html">>

\* what the quoted lines of parse_block_quote come to: the state, the text
\* of the quote, the end position a sibling's handler returned, the starts
\* of the lines taken as lazy continuation lines, and the position where
\* the quote ends
QuoteOut(st, text, end_pos, lazy, stop) ==
    [st |-> st, text |-> text, end_pos |-> end_pos, lazy |-> lazy, stop |-> stop]

\* lines 270-276 alone: the marked lines are taken and prev_blank_line is
\* left as it was when a lazy line can follow, False
QuoteMarkedNoBlank(self, st, text, lazy, e, quote) ==
    QuoteLoop(self, Advanced(st, [st EXCEPT !.cursor = e]), text \o quote,
              FALSE, lazy)

\* lines 270-281: the marked lines up to e are taken
QuoteMarked(self, st, text, lazy, e, quote) ==
    QuoteLoop(self, Advanced(st, [st EXCEPT !.cursor = e]), text \o quote,
              IF Strip(quote, WhiteSpace) = <<>> THEN TRUE
              ELSE LINE_BLANK_END(quote),
              lazy)

\* lines 295-300: the line up to pos is a lazy continuation line
QuoteLazy(self, st, st1, text, lazy, pos) ==
    QuoteLoop(self, Advanced(st, [st1 EXCEPT !.cursor = pos]),
              text \o expand_leading_tab(get_text(st1, pos), 3),
              FALSE, Append(lazy, st.cursor))

\* lines 289-293: r is what the handler of a break rule left
QuoteBreak(self, st, text, lazy, r) ==
    IF r.st.err # "" THEN QuoteOut(r.st, text, 0, lazy, st.cursor)
    ELSE IF r.end # 0 THEN QuoteOut(r.st, text, r.end, lazy, st.cursor)
    ELSE QuoteLazy(self, st, r.st, text, lazy, find_line_end(r.st))

\* one pass of the loop, e being the end of the STRICT_BLOCK_QUOTE match
QuotePass(self, st, text, prev_blank_line, lazy, e) ==
    IF e # -1
    THEN QuoteMarked(self, st, text, lazy, e, Unquote(Slice(st.src, st.cursor, e)))
    ELSE IF prev_blank_line THEN QuoteOut(st, text, 0, lazy, st.cursor)
    ELSE QuoteBreak(self, st, text, lazy,
                    TryMethod(self, ScMatch(BreakRules, st.src, st.cursor), st))

\* the while loop of parse_block_quote's non-strict mode (lines 268-300)
QuoteLoop(self, st, text, prev_blank_line, lazy) ==
    IF Halted(st) \/ ~(st.cursor < cursor_max(st))
    THEN QuoteOut(st, text, 0, lazy, st.cursor)
    ELSE QuotePass(self, st, text, prev_blank_line, lazy,
                   StrictQuoteEnd(st.src, st.cursor))

\* lines 253-261: the strict mode, e being the end of the match
QuoteStrict(st, text, e) ==
    IF e # -1
    THEN QuoteOut([st EXCEPT !.cursor = e],
                  text \o Unquote(Slice(st.src, st.cursor, e)), 0, <<>>, e)
    ELSE QuoteOut(st, text, 0, <<>>, st.cursor)

\* lines 315-320: the token of the quote x with the parsed child
QuoteToken(m, strict, x, text, child) ==
    LET st2 == [AfterChild(x.st, child) EXCEPT
                   !.note = [strict |-> strict, lazy |-> x.lazy, stop |-> x.stop,
                             end_pos |-> x.end_pos, text |-> text]]
        token == [type |-> "block_quote", children |-> child.tokens,
                  lo |-> m.start, hi |-> x.stop]
    IN  IF Halted(child) THEN Ret(st2, 0)
        ELSE IF x.end_pos # 0 THEN Ret(prepend_token(st2, token), x.end_pos)
        ELSE Ret(append_token(st2, token), st2.cursor)

\* lines 306-314: the child state over text, parsed under the rules that
\* the depth allows
QuoteChild(self, m, strict, x, text, narrow) ==
    IF narrow /\ ~Contains(self.block_quote_rules, "block_quote")
    THEN Ret(Raise(x.st, "ValueError"), 0)
    ELSE QuoteToken(m, strict, x, text,
             Parse(self, child_state(x.st, text),
                   IF narrow THEN Remove(self.block_quote_rules, "block_quote")
                   ELSE self.block_quote_rules))

\* lines 302-312 for the quote x
QuoteBody(self, m, strict, x) ==
    IF Halted(x.st) THEN Ret(x.st, 0)
    ELSE QuoteChild(self, m, strict, x, expand_tab(x.text),
                    x.st.depth >= self.max_nested_level - 1)

\* lines 250-300: st has the cursor after the first line, text is that line
QuoteFrom(self, m, st, text, require_marker) ==
    QuoteBody(self, m, require_marker,
              IF require_marker
              THEN QuoteStrict(st, text, StrictQuoteEnd(st.src, st.cursor))
              ELSE QuoteLoop(self, st, text, FALSE, <<>>))

\* lines 243-248: the first line cleaned up, and whether it opens a code block
QuoteFirst(self, m, st, text) ==
    QuoteFrom(self, m, st, text,
              ScMatch(<<"blank_line", "indent_code", "fenced_code">>, text, 0).ok)

parse_block_quote(self, m, st) ==
    QuoteFirst(self, m,
               [st EXCEPT !.cursor = m.end + 1,
                          !.qmax = IF st.depth > @ THEN st.depth ELSE @],
               BLOCK_QUOTE_TRIM(expand_leading_tab(m.g1 \o <<NL>>, 3)))

\* what the line loop of _parse_list_item comes to: the state, the text of
\* the item, the match of the next item, the end position a sibling's
\* handler returned, whether a blank line came before the next item, and
\* the position where the item ends
ItemOut(st, src, next, end_pos, prev_blank_line, stop) ==
    [st |-> st, src |-> src, next |-> next, end_pos |-> end_pos,
     loose |-> next.ok /\ prev_blank_line, stop |-> stop]

\* r is what the handler of a rule that ends the item left
ItemBreak(self, it, st, src, prev_blank_line, text, pos, line, r) ==
    IF r.st.err # "" \/ r.end # 0 \/ prev_blank_line
    THEN ItemOut(r.st, src, NoMatch, r.end, prev_blank_line, st.cursor)
    ELSE ItemLoop(self, it, Advanced(st, [r.st EXCEPT !.cursor = pos]),
                  src \o line, prev_blank_line, text)

\* m is the match of the item scanner at a line that does not continue
ItemEnd(self, it, st, src, prev_blank_line, text, pos, line, m) ==
    IF m.ok /\ m.rule = "list_item"
    THEN ItemOut([st EXCEPT !.cursor = m.end + 1], src, m, 0, prev_blank_line,
                 st.cursor)
    ELSE ItemBreak(self, it, st, src, prev_blank_line, text, pos, line,
                   TryMethod(self, m, st))

\* line is the line up to pos, which is not blank, its leading tab expanded
ItemText(self, it, st, src, prev_blank_line, text, pos, line) ==
    IF HasPrefix(line, 0, Spaces(it.width))
    THEN IF prev_blank_line /\ text = <<>> /\ Strip(src, WhiteSpace) = <<>>
         THEN ItemOut(st, src, NoMatch, 0, prev_blank_line, st.cursor)
         ELSE ItemLoop(self, it, Advanced(st, [st EXCEPT !.cursor = pos]),
                       src \o line, FALSE, text)
    ELSE ItemEnd(self, it, st, src, prev_blank_line, text, pos, line,
                 ItemScMatch(it.bullet, it.w, st.src, st.cursor))

\* one pass of the loop over the line that ends at pos
ItemLine(self, it, st, src, prev_blank_line, text, pos) ==
    IF BlankLinesEnd(get_text(st, pos), 0) # -1
    THEN ItemLoop(self, it, Advanced(st, [st EXCEPT !.cursor = pos]),
                  src \o <<NL>>, TRUE, text)
    ELSE ItemText(self, it, st, src, prev_blank_line, text, pos,
                  expand_leading_tab(get_text(st, pos), 4))

\* the line loop of _parse_list_item
ItemLoop(self, it, st, src, prev_blank_line, text) ==
    IF Halted(st) \/ ~(st.cursor < cursor_max(st))
    THEN ItemOut(st, src, NoMatch, 0, prev_blank_line, st.cursor)
    ELSE ItemLine(self, it, st, src, prev_blank_line, text, find_line_end(st))

\* what the items of a list come to
ItemsOut(st, children, tight, end_pos, stop) ==
    [st |-> st, children |-> children, tight |-> tight, end_pos |-> end_pos,
     stop |-> stop]

\* the item x with its parsed child, and the items after it
ItemDone(self, bullet, groups, children, tight, x, child) ==
    LET st2 == AfterChild(x.st, child)
        tight2 == tight /\ ~x.loose /\ ~is_loose(child.tokens)
        items == Append(children, [type |-> "list_item", children |-> child.tokens,
                                   lo |-> groups.start, hi |-> x.stop])
    IN  IF ~Halted(child) /\ x.next.ok
        THEN ListItems(self, bullet, x.next, st2, items, tight2)
        ELSE ItemsOut(st2, items, tight2, x.end_pos, x.stop)

\* the child state of the item x over its cleaned text, parsed
ItemChild(self, bullet, groups, children, tight, cw, x) ==
    IF Halted(x.st) THEN ItemsOut(x.st, children, tight, 0, x.stop)
    ELSE ItemDone(self, bullet, groups, children, tight, x,
             Parse(self,
                   child_state(x.st, strip_end(
                       cw.text \o clean_list_item_text(x.src, cw.width))),
                   self.list_rules))

\* _parse_list_item for the item matched by groups, cw being its first line
\* and its continuation width
ItemFrom(self, bullet, groups, st, children, tight, cw) ==
    ItemChild(self, bullet, groups, children, tight, cw,
              ItemLoop(self,
                       [bullet |-> bullet, width |-> cw.width,
                        w |-> MinOf({3, Len(groups.g1) + Len(groups.g2)})],
                       st, <<>>, FALSE, cw.text))

\* `while groups: groups = _parse_list_item(...)`
ListItems(self, bullet, groups, st, children, tight) ==
    ItemFrom(self, bullet, groups, st, children, tight,
             compile_continue_width(groups.g3, Len(groups.g1) + Len(groups.g2)))

\* the list token of the items x, and the state left
ListToken(attrs, groups, st, x) ==
    [st |-> x.st, end_pos |-> x.end_pos,
     token |-> [type |-> "list", children |-> x.children,
                attrs |-> [attrs EXCEPT !.tight = x.tight] @@ [depth |-> st.depth],
                lo |-> groups.start, hi |-> x.stop]]

\* list_parser.parse_list(block, attrs, groups, state): the token with its
\* '_end_pos', and the state left
list_parser_parse_list(self, attrs, groups, st) ==
    ListToken(attrs, groups, st,
              ListItems(self, groups.g2[Len(groups.g2)], groups, st, <<>>, TRUE))

\* int(marker[:-1])
StartOf(marker) == ToInt(SubSeq(marker, 1, Len(marker) - 1))

\* lines 323-342: whether the list may not interrupt a paragraph
NoInterrupt(m) ==
    \/ Strip(m.g3, WhiteSpace) = <<>>
    \/ (Len(m.g2) > 1 /\ StartOf(m.g2) # 1)

\* lines 331-342
ListAttrs(marker) ==
    IF Len(marker) > 1 /\ StartOf(marker) # 1
    THEN [ordered |-> TRUE, tight |-> TRUE, start |-> StartOf(marker)]
    ELSE [ordered |-> Len(marker) > 1, tight |-> TRUE]

\* lines 347-357 for x, what list_parser.parse_list left
ListDone(x) ==
    LET token == [x.token EXCEPT !.children =
                     [i \in 1..Len(@) |->
                         @[i] @@ [attrs |-> [depth |-> x.token.attrs.depth,
                                             tight |-> x.token.attrs.tight]]]]
    IN  IF Halted(x.st) THEN Ret(x.st, 0)
        ELSE IF x.end_pos # 0 THEN Ret(prepend_token(x.st, token), x.end_pos)
        ELSE Ret(append_token(x.st, token), x.st.cursor)

parse_list(self, m, st) ==
    OrElse(IF NoInterrupt(m) THEN append_paragraph(st) ELSE Ret(st, 0),
           ListDone(list_parser_parse_list(self, ListAttrs(m.g2), m,
                                           [st EXCEPT !.cursor = m.end + 1])))

\* lines 183-186: the last token, a paragraph, becomes a heading
SetexHeading(m, token) ==
    [[token EXCEPT !.type = "heading"] EXCEPT !.hi = m.end + 1]
    @@ [attrs |-> [level |-> IF m.g1 = <<"=">> THEN 1 ELSE 2]]

parse_setex_heading(self, m, st) ==
    IF LastIsParagraph(st)
    THEN Ret([st EXCEPT !.tokens[Len(st.tokens)] = SetexHeading(m, @)], m.end + 1)
    ELSE TryMethod(self, ScMatch(<<"thematic_break", "list">>, st.src, st.cursor), st)

\* core.Parser.parse_method: the handler of the rule that matched
parse_method(self, m, st) ==
    CASE m.rule = "blank_line" -> parse_blank_line(m, st)
      [] m.rule = "thematic_break" -> parse_thematic_break(m, st)
      [] m.rule = "indent_code" -> parse_indent_code(m, st)
      [] m.rule = "fenced_code" -> parse_fenced_code(m, st)
      [] m.rule = "axt_heading" -> parse_axt_heading(m, st)
      [] m.rule = "setex_heading" -> parse_setex_heading(self, m, st)
      [] m.rule = "ref_link" -> parse_ref_link(m, st)
      [] m.rule = "block_quote" -> parse_block_quote(self, m, st)
      [] m.rule = "list" -> parse_list(self, m, st)
      [] m.rule = "block_html" -> parse_block_html(m, st)
      [] m.rule = "raw_html" -> parse_raw_html(m, st)

\* lines 426-430: the text before the match is a paragraph
BeforeMatch(st, m) ==
    IF m.start > st.cursor
    THEN [add_paragraph(st, get_text(st, m.start), st.cursor, m.start)
             EXCEPT !.cursor = m.start]
    ELSE st

\* lines 436-439: the line up to end_pos is a paragraph
ParagraphLine(st, end_pos) ==
    [add_paragraph(st, get_text(st, end_pos), st.cursor, end_pos)
        EXCEPT !.cursor = end_pos]

\* lines 433-435 alone: the pass of a loop that lacks the fallback of
\* lines 436-439
AfterMethodNoFallback(ret) ==
    IF ret.st.err # "" THEN ret.st
    ELSE IF ret.end # 0 THEN [ret.st EXCEPT !.cursor = ret.end]
    ELSE ret.st

\* lines 433-439 for ret, what the handler left
AfterMethod(ret) ==
    IF ret.st.err # "" THEN ret.st
    ELSE IF ret.end # 0 THEN [ret.st EXCEPT !.cursor = ret.end]
    ELSE ParagraphLine(ret.st, find_line_end(ret.st))

\* one pass of the while loop of BlockParser.parse with the match m
ParsePass(self, st, m) == AfterMethod(parse_method(self, m, BeforeMatch(st, m)))

\* lines 441-444: what is left is a paragraph
ParseRest(st) ==
    IF st.cursor < cursor_max(st)
    THEN [add_paragraph(st, From(st.src, st.cursor), st.cursor, cursor_max(st))
             EXCEPT !.cursor = cursor_max(st)]
    ELSE st

\* lines 422-439 for m, what sc.search found
ParseFound(self, st, rules, m) ==
    IF ~m.ok THEN ParseRest(st)
    ELSE Parse(self, Advanced(st, ParsePass(self, st, m)), rules)

\* BlockParser.parse(state, rules)
Parse(self, st, rules) ==
    IF Halted(st) THEN st
    ELSE IF ~(st.cursor < cursor_max(st)) THEN ParseRest(st)
    ELSE ParseFound(self, st, rules, ScSearch(rules, st.src, st.cursor))

(***************************************************************************)
(* The tree walk (render, _call_render, _iter_render).  The inline         *)
(* delegate and the renderer are external; the delegate is taken to give   *)
(* one text leaf, and no renderer is installed.                            *)
(***************************************************************************)
NoParent == [type |-> "none"]
inline(text, env) == <<[type |-> "text", raw |-> text]>>

\* line 416 without the test of lines 414-415
postprocess_paragraph_always(token, parent) == [token EXCEPT !.type = "block_text"]

\* lines 410-416
postprocess_paragraph(token, parent) ==
    IF /\ "attrs" \in DOMAIN parent
       /\ "tight" \in DOMAIN parent.attrs
       /\ parent.attrs.tight
    THEN [token EXCEPT !.type = "block_text"]
    ELSE token

RECURSIVE iter_render(_, _, _)
iter_render(toks, env, parent) ==
    [i \in 1..Len(toks) |->
        LET tok == toks[i]
            expanded == [k \in (DOMAIN tok \ {"text"}) \cup {"children"} |->
                            IF k = "children"
                            THEN inline(Strip(tok.text, WhiteSpace), env)
                            ELSE tok[k]]
        IN  IF "children" \in DOMAIN tok
            THEN [tok EXCEPT !.children = iter_render(@, env, tok)]
            ELSE IF "text" \in DOMAIN tok
            THEN IF tok.type = "paragraph" /\ parent # NoParent
                 THEN postprocess_paragraph(expanded, parent)
                 ELSE expanded
            ELSE tok]

render(toks, env) == iter_render(toks, env, NoParent)

(***************************************************************************)
(* The documents and configurations the parser is run on.                  *)
(***************************************************************************)
\* lines that open, continue or close a block quote, a list or a paragraph
CoreLines ==
    { <<"a">>, <<>>, <<">", " ", "a">>, <<">">>, <<"-">>, <<"-", " ", "a">>,
      <<"-", "-", "-">> }
\* one line for each further construct and for each way a handler declines
Lines ==
    CoreLines \cup
    { <<"=", "=", "=">>,
      <<"#", " ", "a">>,
      <<" ", " ", " ", " ", "a">>,
      <<"~", "~", "~">>,
      <<BACKTICK, BACKTICK, BACKTICK, " ", BACKTICK>>,
      <<"[", "a", "]", ":", " ", "/", "x">>,
      <<"[", "A", "]", ":", " ", "/", "y">>,
      <<"[", "a", "]", ":">>,
      <<"<", "b", ">">>,
      <<"<", "b", ">", " ", "a">>,
      <<"<", "p", ">">>,
      <<"2", ".", " ", "a">>,
      <<">", " ", "[", "a", "]", ":", " ", "/", "x">>,
      <<"-", " ", "[", "A", "]", ":", " ", "/", "y">>,
      <<"-", " ", "-", " ", ">", " ", "a">>,
      <<">", " ", ">", " ", ">", " ", "a">>,
      <<"*", "*", "*">>,
      <<"[", " ", "]", ":", " ", "/", "x">>,
      <<"p">>,
      <<"u", "l", ">">>,
      <<"*">>,
      <<"<", "/", "p", "r", "e", ">">> }

\* the documents: at most MaxLines core lines or at most MaxAnyLines lines,
\* joined, with or without a newline after the last one
MaxLines == 3
MaxAnyLines == 2
DocsOf(lines, n) ==
    {JoinNL(ls) \o e : ls \in UNION {[1..k -> lines] : k \in 1..n},
                       e \in {<<>>, <<NL>>}}
AnyDocs == DocsOf(Lines, MaxAnyLines)
Docs == DocsOf(CoreLines, MaxLines) \cup AnyDocs

\* max_nested_level as the parser is constructed in the model (its default
\* is 6), small enough for the documents to nest deeper than it
NestedLevel == 2
DefaultConfig ==
    [block_quote_rules |-> DEFAULT_RULES, list_rules |-> DEFAULT_RULES,
     max_nested_level |-> NestedLevel]

(***************************************************************************)
(* The state machine: a top-level state parsed pass by pass, then walked.  *)
(***************************************************************************)
VARIABLES
    self,       \* the parser's configuration
    src,        \* state.src
    cursor,     \* state.cursor
    tokens,     \* state.tokens
    env,        \* state.env['ref_links']
    pc,         \* "parse", "parsed", "rendered", "raised" or "stalled"
    err,        \* the exception raised, "" for none
    stalled,    \* a loop pass left the cursor where it was
    qmax,       \* the greatest depth the block-quote handler ran at
    note,       \* what the last block-quote call took in
    last        \* the last pass of the top-level loop

vars == <<self, src, cursor, tokens, env, pc, err, stalled, qmax, note, last>>

\* the top-level state as a record
State ==
    [src |-> src, cursor |-> cursor, tokens |-> tokens, env |-> env, depth |-> 0,
     err |-> err, stalled |-> stalled, qmax |-> qmax, note |-> note]

\* what a pass records of a state
View(st) == [tokens |-> st.tokens, cursor |-> st.cursor, env |-> st.env]

\* a pass: the rule that matched and its match, the cursor the pass began
\* at, the state the handler was called in, the state it left and the
\* position it returned (0 for None), and the state at the end of the pass
NoLast == [rule |-> "", m |-> NoMatch, from |-> 0, end |-> 0,
           call |-> View(NewState(<<>>, <<>>, 0)),
           ret |-> View(NewState(<<>>, <<>>, 0)),
           done |-> View(NewState(<<>>, <<>>, 0))]

Store(st) ==
    /\ src' = st.src
    /\ cursor' = st.cursor
    /\ tokens' = st.tokens
    /\ env' = st.env
    /\ err' = st.err
    /\ stalled' = st.stalled
    /\ qmax' = st.qmax
    /\ note' = st.note

InitWith(configs, docs) ==
    /\ self \in configs
    /\ src \in docs
    /\ cursor = 0
    /\ tokens = <<>>
    /\ env = <<>>
    /\ pc = "parse"
    /\ err = ""
    /\ stalled = FALSE
    /\ qmax = -1
    /\ note = NoNote
    /\ last = NoLast

Init == InitWith({DefaultConfig}, Docs)

\* `m = sc.search(state.src, state.cursor)` of the top-level loop
Dispatch == ScSearch(DEFAULT_RULES, src, cursor)

\* the loop goes on and the match is one of `rule`
Dispatches(rule) ==
    /\ pc = "parse"
    /\ cursor < Len(src)
    /\ Dispatch.ok
    /\ Dispatch.rule = rule

\* the end of a pass: st is the state it leaves
PassDone(m, call, ret, st) ==
    /\ Store(st)
    /\ last' = [rule |-> m.rule, m |-> m, from |-> cursor, end |-> ret.end,
                call |-> View(call), ret |-> View(ret.st), done |-> View(st)]
    /\ pc' = IF st.err # "" THEN "raised"
             ELSE IF st.stalled THEN "stalled"
             ELSE "parse"
    /\ UNCHANGED self

\* the handler, called in the state `call`, leaves ret
PassRet(m, call, ret) == PassDone(m, call, ret, Advanced(State, AfterMethod(ret)))

PassCall(m, call) == PassRet(m, call, parse_method(self, m, call))

\* one pass of the while loop of BlockParser.parse (lines 421-439)
Pass == PassCall(Dispatch, BeforeMatch(State, Dispatch))

ParseFencedCode ==
    /\ Dispatches("fenced_code")
    /\ Pass

ParseIndentCode ==
    /\ Dispatches("indent_code")
    /\ Pass

ParseAxtHeading ==
    /\ Dispatches("axt_heading")
    /\ Pass

ParseSetexHeading ==
    /\ Dispatches("setex_heading")
    /\ Pass

ParseThematicBreak ==
    /\ Dispatches("thematic_break")
    /\ Pass

ParseBlockQuote ==
    /\ Dispatches("block_quote")
    /\ Pass

ParseList ==
    /\ Dispatches("list")
    /\ Pass

ParseRefLink ==
    /\ Dispatches("ref_link")
    /\ Pass

ParseRawHtml ==
    /\ Dispatches("raw_html")
    /\ Pass

ParseBlankLine ==
    /\ Dispatches("blank_line")
    /\ Pass

\* the loop ends: the cursor is at cursor_max or no rule matches any more
ParseEnd ==
    /\ pc = "parse"
    /\ ~(cursor < Len(src) /\ Dispatch.ok)
    /\ Store(ParseRest(State))
    /\ pc' = "parsed"
    /\ UNCHANGED <<self, last>>

\* BlockParser.render
Render ==
    /\ pc = "parsed"
    /\ tokens' = render(tokens, env)
    /\ pc' = "rendered"
    /\ UNCHANGED <<self, src, cursor, env, err, stalled, qmax, note, last>>

Next ==
    \/ ParseFencedCode
    \/ ParseIndentCode
    \/ ParseAxtHeading
    \/ ParseSetexHeading
    \/ ParseThematicBreak
    \/ ParseBlockQuote
    \/ ParseList
    \/ ParseRefLink
    \/ ParseRawHtml
    \/ ParseBlankLine
    \/ ParseEnd
    \/ Render

Spec == Init /\ [][Next]_vars

\* the configurations: rule lists with and without block_quote, and the
\* nesting levels up to NestedLevel
RuleLists == {DEFAULT_RULES, Remove(DEFAULT_RULES, "block_quote")}
Configs ==
    [block_quote_rules : RuleLists, list_rules : RuleLists,
     max_nested_level : 1..NestedLevel]

InitCfg == InitWith(Configs, AnyDocs)

SpecCfg == InitCfg /\ [][Next]_vars

(***************************************************************************)
(* The properties.                                                         *)
(***************************************************************************)
Range(f) == {f[i] : i \in DOMAIN f}

\* the starts of the lines of s
LineStarts(s) == {p \in 0..(Len(s) - 1) : AtLineStart(s, p)}

\* the tokens but the last, and whether the last one is a paragraph whose
\* text is `text`
Front(toks) == SubSeq(toks, 1, Len(toks) - 1)
EndsWithParagraph(toks, text) ==
    /\ Len(toks) > 0
    /\ toks[Len(toks)].type = "paragraph"
    /\ toks[Len(toks)].text = text

\* C1: the dispatch loop comes to its end: every pass of it, whether its
\* handler returned a position or declined, and every pass of the
\* lazy-continuation loop of parse_block_quote leaves the cursor strictly
\* greater than it found it, the buffer being finite.
C1_Terminates ==
    /\ ~stalled
    /\ pc # "stalled"
    /\ last.rule # "" => last.done.cursor > last.from

\* a parse that is over in which the lazy-continuation loop took two lines
C1_Witness ==
    /\ pc = "rendered"
    /\ Len(note.lazy) >= 2
    /\ cursor >= Len(src)

RECURSIVE InOrder(_)
\* every token's source text lies after that of the tokens before it, in
\* the sequence and in the children of each of its tokens
InOrder(toks) ==
    /\ \A i, j \in 1..Len(toks) : i < j => toks[i].hi <= toks[j].lo
    /\ \A i \in 1..Len(toks) :
         "children" \in DOMAIN toks[i] => InOrder(toks[i].children)

\* C2: after the parse the tokens of every token sequence are in document
\* order without overlap, the prepend path of parse_block_quote and
\* parse_list included.
C2_DocumentOrder == pc = "parsed" => InOrder(tokens)

\* a line without the marker of the quote or of the item that holds it
Body(line) ==
    IF HasPrefix(line, 0, <<">", " ">>) \/ HasPrefix(line, 0, <<"-", " ">>)
    THEN From(line, 2)
    ELSE line
\* the definitions a line makes when it stands alone
LineEnv(line) ==
    Parse(DefaultConfig, NewState(Body(line) \o <<NL>>, <<>>, 0), DEFAULT_RULES).env
RECURSIVE FirstWins(_)
\* the definitions of the lines, the first one of a label kept
FirstWins(ls) ==
    IF ls = <<>> THEN <<>> ELSE LineEnv(ls[1]) @@ FirstWins(Tail(ls))
\* the lines of a document that ends with a newline
DocLines == SplitNL(Slice(src, 0, Len(src) - 1))
\* every line of the document is a reference-link definition, at the top
\* level, in a block quote or in a list item
AllDefinitions ==
    /\ src # <<>>
    /\ src[Len(src)] = NL
    /\ \A i \in 1..Len(DocLines) : DOMAIN LineEnv(DocLines[i]) # {}

\* C3: when a label is defined twice, ref_links maps it to the url of the
\* definition that comes first in the document, whichever constructs hold
\* the definitions.
C3_FirstDefinitionWins ==
    (pc = "parsed" /\ AllDefinitions) =>
        /\ DOMAIN env = DOMAIN FirstWins(DocLines)
        /\ \A k \in DOMAIN env : env[k] = FirstWins(DocLines)[k]

\* the line at p has a '>' marker
Marked(s, p) == QuoteLineAt(s, p, SkipSet(s, p, {SP}))
\* the line before the one at p is a marked line whose quoted text is blank
AfterBlankQuote(s, p) ==
    LET q == MaxOf({r \in LineStarts(s) : r < p})
    IN  /\ Marked(s, q)
        /\ AllIn(s, SkipSet(s, q, {SP}) + 1, p - 1, BlankChars)
\* the line at p was accepted by the handler of a break rule
BreakTaken(p) ==
    /\ ScMatch(BreakRules, src, p).ok
    /\ p = note.stop
    /\ note.end_pos # 0

\* C4: in the non-strict mode of parse_block_quote an unmarked line after
\* the quoted lines is taken into the quote's text if and only if the
\* quoted line before it was not blank and no break rule accepted it.
C4_LazyContinuation ==
    (last.rule = "block_quote" /\ ~note.strict) =>
        \A p \in LineStarts(src) :
            (last.m.end < p /\ p <= note.stop /\ ~Marked(src, p)) =>
                (p \in Range(note.lazy)
                    <=> (~AfterBlankQuote(src, p) /\ ~BreakTaken(p)))

\* a quote whose last marked line is blank closed before an unmarked line
C4_Witness ==
    /\ last.rule = "block_quote"
    /\ ~note.strict
    /\ note.stop < Len(src)
    /\ ~Marked(src, note.stop)
    /\ AfterBlankQuote(src, note.stop)
    /\ note.lazy = <<>>

\* C5: no handler call raises, whatever the document and the configuration.
C5_NeverRaises == err = ""

\* C6: with the default rule lists the block-quote handler never runs in a
\* state whose depth is max_nested_level or more.
C6_DepthCap == qmax < self.max_nested_level

\* the parent's attrs.tight is true
Tight(parent) ==
    /\ "attrs" \in DOMAIN parent
    /\ "tight" \in DOMAIN parent.attrs
    /\ parent.attrs.tight
RECURSIVE Walked(_, _, _)
\* `after` is `before` with the paragraphs under a tight parent, and only
\* they, of type block_text
Walked(before, after, parent) ==
    /\ Len(after) = Len(before)
    /\ \A i \in 1..Len(before) :
         IF "children" \in DOMAIN before[i]
         THEN /\ after[i].type = before[i].type
              /\ Walked(before[i].children, after[i].children, before[i])
         ELSE IF before[i].type = "paragraph"
         THEN after[i].type = IF Tight(parent) THEN "block_text" ELSE "paragraph"
         ELSE after[i].type = before[i].type
RECURSIVE TightCopied(_)
\* every item of every list has the list's tight value
TightCopied(toks) ==
    \A i \in 1..Len(toks) :
        "children" \in DOMAIN toks[i] =>
            /\ toks[i].type = "list" =>
                   \A k \in 1..Len(toks[i].children) :
                       toks[i].children[k].attrs.tight = toks[i].attrs.tight
            /\ TightCopied(toks[i].children)
RECURSIVE HasType(_, _)
HasType(toks, t) ==
    \E i \in 1..Len(toks) :
        \/ toks[i].type = t
        \/ ("children" \in DOMAIN toks[i] /\ HasType(toks[i].children, t))

\* C7: the tree walk leaves a paragraph with type block_text if and only
\* if its direct parent has attrs.tight true, and every list item has the
\* tight value of its list.
C7_TightParagraphs ==
    [][(pc = "parsed" /\ pc' = "rendered") =>
           (TightCopied(tokens) /\ Walked(tokens, tokens', NoParent))]_vars

\* a walked tree with a block_text under a tight list and a paragraph under
\* a block quote
C7_Witness ==
    /\ pc = "rendered"
    /\ HasType(tokens, "block_text")
    /\ \E i \in 1..Len(tokens) :
         /\ tokens[i].type = "block_quote"
         /\ HasType(tokens[i].children, "paragraph")

\* the marker opens an HTML block of type 7: it is none of the openers of
\* rules 2 to 5, and its tag is no block tag nor, for an opening tag, a
\* PRE tag
Type7(marker) ==
    /\ EndMarker(marker, IF HasPrefix(marker, 0, <<"<", "/">>) THEN <<>>
                         ELSE TagOf(marker)) = <<>>
    /\ ~InTags(TagOf(marker), BLOCK_TAGS)

\* the match is of a construct that may not interrupt a paragraph
MayNotInterrupt(m) ==
    \/ m.rule = "indent_code"
    \/ m.rule = "ref_link"
    \/ (m.rule = "list" /\ Strip(m.g3, WhiteSpace) = <<>>)
    \/ (m.rule = "list" /\ Len(m.g2) > 1 /\ StartOf(m.g2) # 1)
    \/ /\ m.rule = "raw_html"
       /\ Type7(Strip(Group0(src, m), WhiteSpace))

\* C8: called when the last token is a paragraph, the handler of a construct
\* that may not interrupt a paragraph adds no token and leaves the
\* environment alone; it adds the line to the paragraph and returns the
\* line's end.  Called otherwise, it leaves the tokens it found alone.
C8_NoInterruption ==
    (last.rule # "" /\ MayNotInterrupt(last.m)) =>
        IF LastIsParagraph(last.call)
        THEN /\ last.end = LineEnd(src, last.call.cursor)
             /\ last.ret.env = last.call.env
             /\ Len(last.ret.tokens) = Len(last.call.tokens)
             /\ Front(last.ret.tokens) = Front(last.call.tokens)
             /\ EndsWithParagraph(last.ret.tokens,
                    last_token(last.call).text
                        \o Slice(src, last.call.cursor, last.end))
        ELSE last.end # 0 =>
                 SubSeq(last.ret.tokens, 1, Len(last.call.tokens)) = last.call.tokens

\* an empty list item after a paragraph went into the paragraph
C8_Witness ==
    /\ last.rule = "list"
    /\ Strip(last.m.g3, WhiteSpace) = <<>>
    /\ LastIsParagraph(last.call)
    /\ last.end # 0
    /\ Len(last.ret.tokens) = Len(last.call.tokens)

\* C9: the cursor never exceeds cursor_max after a handler returns, and
\* equals cursor_max when parse returns.
C9_CursorBound ==
    /\ last.rule # "" =>
           /\ last.end <= Len(src)
           /\ last.ret.cursor <= Len(src)
           /\ last.done.cursor <= Len(src)
    /\ pc \in {"parsed", "rendered"} => cursor = Len(src)

\* C10: a handler that declines leaves the tokens, the cursor and the
\* environment as it found them, and the dispatch loop then takes one
\* line, from the cursor to the end of the line, as paragraph text.
C10_DeclineChangesNothing ==
    (last.rule # "" /\ last.end = 0) =>
        LET call == last.call
            done == last.done
            line == Slice(src, call.cursor, LineEnd(src, call.cursor))
        IN  /\ last.ret = call
            /\ done.env = call.env
            /\ done.cursor = LineEnd(src, call.cursor)
            /\ IF LastIsParagraph(call)
               THEN /\ Len(done.tokens) = Len(call.tokens)
                    /\ Front(done.tokens) = Front(call.tokens)
                    /\ EndsWithParagraph(done.tokens, last_token(call).text \o line)
               ELSE /\ Front(done.tokens) = call.tokens
                    /\ EndsWithParagraph(done.tokens, line)

\* the handler of a reference-link definition declined
C10_Witness ==
    /\ last.rule = "ref_link"
    /\ last.end = 0
    /\ last.done.cursor > last.call.cursor

====
